---------------------------- MODULE Spec2Model ----------------------------
(***************************************************************************)
(* A model of the three cooperating mechanisms of ts-user-data-express:    *)
(*   - AsyncQueue  (src/src/queue/async-queue.ts, lines 49-234)            *)
(*   - LRUCache    (src/src/queue/async-queue.ts, lines 249-533)           *)
(*   - RateLimiter (src/src/middleware/rate-limiter.ts, lines 31-264)      *)
(*                                                                         *)
(* Granularity.  The program runs on the JavaScript event loop, so every   *)
(* action below is one run-to-completion turn: the synchronous code of a   *)
(* call or of a continuation, followed by the promise reactions (the       *)
(* microtasks) that the turn queued.  The suspension points of the code,   *)
(* `await job.task()` and `await new Promise(setTimeout)`, are job states. *)
(***************************************************************************)
EXTENDS Integers, Sequences, FiniteSets, TLC

VARIABLES
    \* ---- AsyncQueue ----
    options,            \* the argument of the queue's constructor
    config,             \* this.config, as the constructor computed it
    jobs,               \* every QueueJob created so far, by creation index
    queue,              \* this.queue: creation indices of the waiting jobs
    processing,         \* this.processing
    deduplicationMap,   \* this.deduplicationMap: key -> the job whose promise is stored
    queueStats,         \* this.stats of the queue
    drain,              \* the latest call of drain(): "idle", "waiting" or "resolved"
    \* ---- the clock ----
    now,                \* Date.now(), in milliseconds
    \* ---- RateLimiter ----
    limiterConfig,      \* this.config of the limiter
    store,              \* this.store: identity -> its RateLimitWindow, or NoWindow
    response,           \* what the middleware answered to the latest request
    requestLog,         \* history: per identity, the time and status of each request
    \* ---- LRUCache ----
    cacheConfig,        \* this.capacity and this.ttl
    cache,              \* this.cache: key -> its CacheNode, or NoNode
    head,               \* this.head: the key of the most recently used node, or Null
    tail,               \* this.tail: the key of the least recently used node, or Null
    cacheStats,         \* this.stats of the cache
    cacheOp,            \* the latest call on the cache, what it returned and, for a
                        \* set, whether it found its key in the map
    history,            \* history: key -> what became of the entry of its latest set
    recency,            \* history: the cached keys, the most recently accessed first
    \* ---- the users router ----
    reply               \* what the router answered last

queueVars == <<options, config, jobs, queue, processing, deduplicationMap, queueStats,
              drain>>
limiterVars == <<limiterConfig, store, response, requestLog>>

cacheVars == <<cacheConfig, cache, head, tail, cacheStats, cacheOp, history, recency>>

routerVars == <<reply>>

vars == <<options, config, jobs, queue, processing, deduplicationMap, queueStats, drain,
          now, limiterConfig, store, response, requestLog,
          cacheConfig, cache, head, tail, cacheStats, cacheOp, history, recency,
          reply>>

-----------------------------------------------------------------------------
(* Bounds of the model *)

MaxJobs == 2              \* jobs created in one behaviour
MaxCallers == 2           \* enqueue calls that may share one job's promise

Keys == {"K1", "K2"}
Values == {"v1"}
ProcessingTimes == {0, 1} \* Date.now() - startTime of a successful attempt

(* The arguments the constructor is called with.  A maxRetries of 0 asks   *)
(* for no retry; a concurrency of 0 would be a queue that runs nothing and *)
(* is left out.                                                            *)
ConcurrencyArgs == {1, 2}
DeduplicationArgs == BOOLEAN

(* What a task may fail with: an Error object or a value that is not one.  *)
Failures == {[isError |-> TRUE, text |-> "boom"], [isError |-> FALSE, text |-> "boom"]}

NoJob == 0
NoOutcome == [kind |-> "none"]
(* A faulty clear() that rejects with the task's kind of failure.           *)
QueueClearedAsFailure == [isError |-> FALSE, text |-> "boom"]

(* new Error("Queue cleared") *)
QueueCleared == [isError |-> TRUE, text |-> "Queue cleared"]

-----------------------------------------------------------------------------
(* AsyncQueue *)

DefaultConcurrency == 5
DefaultMaxRetries == 3

(* `x || d` on a number: 0 is falsy.                                       *)
OrDefault(x, d) == IF x = 0 THEN d ELSE x

(* constructor(config): the arguments are a record of the three fields     *)
(* the model varies; retryDelay only sets the length of the timer.         *)
Constructor(arg) ==
    [concurrency   |-> OrDefault(arg.concurrency, DefaultConcurrency),
     maxRetries    |-> OrDefault(arg.maxRetries, DefaultMaxRetries),
     deduplication |-> arg.deduplication # FALSE]

ConstructorArgs ==
    [concurrency : ConcurrencyArgs, maxRetries : {1}, deduplication : DeduplicationArgs]
    \cup {[concurrency |-> 1, maxRetries |-> 0, deduplication |-> TRUE]}

(* A job is unsettled while its promise is pending.                        *)
Unsettled(j) == jobs[j].state \in {"queued", "running", "delay"}

(* new QueueJob in enqueue's promise executor.                             *)
NewJob(key) ==
    [id |-> key, state |-> "queued", retries |-> 0, invocations |-> 0,
     callers |-> 1, outcome |-> NoOutcome]

(* job.resolve(value) or job.reject(error): the job's promise settles.     *)
Settle(job, st, out) == [job EXCEPT !.state = st, !.outcome = out]

(* A faulty guard: `>` where processNext has `>=`.                         *)
CanProcessOffByOne(q, p) == ~(p > config.concurrency \/ Len(q) = 0)

(* A faulty guard that keeps one slot free.                                *)
CanProcessOneSlotShort(q, p) == ~(p + 1 >= config.concurrency \/ Len(q) = 0)

(* A faulty guard that never lets a job start.                             *)
CanProcessNever(q, p) == FALSE

(* The guard of processNext: may another job start?                        *)
CanProcess(q, p) == ~(p >= config.concurrency \/ Len(q) = 0)

(* A faulty processNext that takes the job at the back of the queue.       *)
ProcessNextFromBack(q, p, js) ==
    IF CanProcess(q, p)
    THEN [queue |-> SubSeq(q, 1, Len(q) - 1), processing |-> p + 1,
          jobs |-> [js EXCEPT ![q[Len(q)]].state = "running",
                              ![q[Len(q)]].invocations = @ + 1]]
    ELSE [queue |-> q, processing |-> p, jobs |-> js]

(* processNext up to its first await: shift the head, count it as          *)
(* processing and invoke its task.  q, p, js are the queue, the counter    *)
(* and the jobs at the time of the call.                                   *)
ProcessNext(q, p, js) ==
    IF CanProcess(q, p)
    THEN [queue |-> Tail(q), processing |-> p + 1,
          jobs |-> [js EXCEPT ![Head(q)].state = "running",
                              ![Head(q)].invocations = @ + 1]]
    ELSE [queue |-> q, processing |-> p, jobs |-> js]

(* The first test of enqueue: is there a stored promise to return?         *)
IsDuplicate(key) == config.deduplication /\ deduplicationMap[key] # NoJob

(* A faulty enqueue that never registers the clean-up.                     *)
FinallyKeep(map, key) == map

(* promise.finally(() => this.deduplicationMap.delete(key)), registered    *)
(* only with deduplication: it deletes the key whatever promise is stored. *)
FinallyDelete(map, key) ==
    IF config.deduplication THEN [map EXCEPT ![key] = NoJob] ELSE map

QueueStart ==
    /\ options \in ConstructorArgs
    /\ config = Constructor(options)
    /\ jobs = <<>>
    /\ queue = <<>>
    /\ processing = 0
    /\ deduplicationMap = [k \in Keys |-> NoJob]
    /\ queueStats = [completed |-> 0, failed |-> 0, totalProcessingTime |-> 0]
    /\ drain = "idle"

(* enqueue(key, task), while fewer than n jobs have been created *)
EnqueueUpTo(key, n) ==
    IF IsDuplicate(key)
    THEN /\ jobs[deduplicationMap[key]].callers < MaxCallers
         /\ jobs' = [jobs EXCEPT ![deduplicationMap[key]].callers = @ + 1]
         /\ UNCHANGED <<options, config, queue, processing, deduplicationMap, queueStats>>
    ELSE /\ Len(jobs) < n
         /\ LET j == Len(jobs) + 1
                r == ProcessNext(Append(queue, j), processing, Append(jobs, NewJob(key)))
            IN /\ jobs' = r.jobs
               /\ queue' = r.queue
               /\ processing' = r.processing
               /\ deduplicationMap' =
                     IF config.deduplication
                     THEN [deduplicationMap EXCEPT ![key] = j]
                     ELSE deduplicationMap
         /\ UNCHANGED <<options, config, queueStats>>

(* enqueue(key, task) *)
Enqueue(key) == EnqueueUpTo(key, MaxJobs)

(* The continuation of `await job.task()` when the task fulfils with       *)
(* value v after d milliseconds, the finally block, and the reaction of    *)
(* the resolved promise.                                                   *)
TaskSucceed(j, v, d) ==
    /\ j \in 1..Len(jobs)
    /\ jobs[j].state = "running"
    /\ queueStats' = [queueStats EXCEPT !.totalProcessingTime = @ + d,
                                        !.completed = @ + 1]
    /\ LET resolved == [jobs EXCEPT ![j] = Settle(@, "resolved", v)]
           r == ProcessNext(queue, processing - 1, resolved)
       IN /\ jobs' = r.jobs
          /\ queue' = r.queue
          /\ processing' = r.processing
    /\ deduplicationMap' = FinallyDelete(deduplicationMap, jobs[j].id)
    /\ UNCHANGED <<options, config>>

(* job.reject(error instanceof Error ? error : new Error(String(error)))   *)
RejectionOf(f) == IF f.isError THEN f ELSE [isError |-> TRUE, text |-> f.text]

(* A faulty retry test: one retry too few.                                 *)
CanRetryOneFewer(job) == job.retries + 1 < config.maxRetries

(* May the failed job be retried?                                          *)
CanRetry(job) == job.retries < config.maxRetries

(* The catch block when the task fails with f: either the retry branch up  *)
(* to its await of the timer, or the terminal branch with the finally      *)
(* block and the reaction of the rejected promise.                         *)
TaskFail(j, f) ==
    /\ j \in 1..Len(jobs)
    /\ jobs[j].state = "running"
    /\ IF CanRetry(jobs[j])
       THEN /\ jobs' = [jobs EXCEPT ![j].retries = @ + 1, ![j].state = "delay"]
            /\ UNCHANGED <<options, config, queue, processing, deduplicationMap, queueStats>>
       ELSE /\ queueStats' = [queueStats EXCEPT !.failed = @ + 1]
            /\ LET rejected == [jobs EXCEPT ![j] = Settle(@, "rejected", RejectionOf(f))]
                   r == ProcessNext(queue, processing - 1, rejected)
               IN /\ jobs' = r.jobs
                  /\ queue' = r.queue
                  /\ processing' = r.processing
            /\ deduplicationMap' = FinallyDelete(deduplicationMap, jobs[j].id)
            /\ UNCHANGED <<options, config>>

(* A faulty retry that puts the job at the back of the queue.              *)
RetryDelayElapsedToBack(j) ==
    /\ j \in 1..Len(jobs)
    /\ jobs[j].state = "delay"
    /\ LET requeued == [jobs EXCEPT ![j].state = "queued"]
           r == ProcessNext(Append(queue, j), processing - 1, requeued)
       IN /\ jobs' = r.jobs
          /\ queue' = r.queue
          /\ processing' = r.processing
    /\ UNCHANGED <<options, config, deduplicationMap, queueStats>>

(* The retry timer fires: queue.unshift(job), then the finally block.      *)
RetryDelayElapsed(j) ==
    /\ j \in 1..Len(jobs)
    /\ jobs[j].state = "delay"
    /\ LET requeued == [jobs EXCEPT ![j].state = "queued"]
           r == ProcessNext(<<j>> \o queue, processing - 1, requeued)
       IN /\ jobs' = r.jobs
          /\ queue' = r.queue
          /\ processing' = r.processing
    /\ UNCHANGED <<options, config, deduplicationMap, queueStats>>

InQueue(j) == \E i \in 1..Len(queue) : queue[i] = j

(* clear(): reject every queued job, empty the queue, clear the map.       *)
QueueClear ==
    /\ jobs' = [j \in 1..Len(jobs) |->
                  IF InQueue(j)
                  THEN Settle(jobs[j], "rejected", QueueCleared)
                  ELSE jobs[j]]
    /\ queue' = <<>>
    /\ deduplicationMap' = [k \in Keys |-> NoJob]
    /\ UNCHANGED <<options, config, processing, queueStats>>

(* resetStats() of the queue *)
QueueResetStats ==
    /\ queueStats' = [completed |-> 0, failed |-> 0, totalProcessingTime |-> 0]
    /\ UNCHANGED <<options, config, jobs, queue, processing, deduplicationMap>>

(* x / y of two numbers that are not negative: 0 / 0 is NaN.  (A positive  *)
(* x over 0 would be Infinity; totalProcessingTime is 0 whenever completed *)
(* is.)                                                                    *)
Divide(x, y) ==
    IF y = 0 THEN [isNaN |-> TRUE] ELSE [isNaN |-> FALSE, num |-> x, den |-> y]

(* Math.round of a quotient that is not negative; Math.round(NaN) is NaN.  *)
Round(q) ==
    IF q.isNaN THEN [isNaN |-> TRUE]
    ELSE [isNaN |-> FALSE, value |-> (2 * q.num + q.den) \div (2 * q.den)]

(* getStats() of the queue *)
QueueGetStats ==
    LET totalProcessed == queueStats.completed + queueStats.failed
        averageProcessingTime ==
            IF totalProcessed > 0
            THEN Divide(queueStats.totalProcessingTime, queueStats.completed)
            ELSE Divide(0, 1)
    IN [pending |-> Len(queue),
        processing |-> processing,
        completed |-> queueStats.completed,
        failed |-> queueStats.failed,
        averageProcessingTime |-> Round(averageProcessingTime),
        totalProcessed |-> totalProcessed]

(* A faulty isEmpty() that looks at the queue only.                        *)
IsEmptyOfQueued(q, p) == Len(q) = 0

(* isEmpty() *)
IsEmpty(q, p) == Len(q) = 0 /\ p = 0

(* drain() up to its first await: the loop test, then the timer of 100 ms  *)
(* or the return.                                                          *)
DrainCall ==
    /\ drain \in {"idle", "resolved"}
    /\ drain' = IF IsEmpty(queue, processing) THEN "resolved" ELSE "waiting"
    /\ UNCHANGED <<options, config, jobs, queue, processing, deduplicationMap, queueStats>>

(* The timer of drain() fires: the loop test again.                        *)
DrainTimer ==
    /\ drain = "waiting"
    /\ drain' = IF IsEmpty(queue, processing) THEN "resolved" ELSE "waiting"
    /\ UNCHANGED <<options, config, jobs, queue, processing, deduplicationMap, queueStats>>

-----------------------------------------------------------------------------
(* The clock *)

TickMs == 500             \* the clock advances in steps of this many milliseconds
MaxTime == 1500           \* the clock stops here

(* Time passes between two turns of the event loop.                        *)
Tick ==
    /\ now + TickMs <= MaxTime
    /\ now' = now + TickMs

(* Date.now() read again later in the same synchronous handler: the same   *)
(* millisecond or a later one.                                             *)
LaterReads(t) == {t2 \in {t, t + TickMs} : t2 <= MaxTime}

-----------------------------------------------------------------------------
(* RateLimiter *)

MaxRequests == 4          \* requests made in one behaviour, all identities together

Identities == {"A", "B"}

(* The configurations the limiter is constructed with (the router uses     *)
(* 60000, 10, 10000, 5): the burst limit is the tighter one.               *)
LimiterConfigs ==
    {[windowMs |-> 2000, maxRequests |-> 3, burstWindowMs |-> 1000, burstMaxRequests |-> 2],
     [windowMs |-> 1500, maxRequests |-> 2, burstWindowMs |-> 500, burstMaxRequests |-> 1]}

MsPerSecond == 1000

NoWindow == [absent |-> TRUE]
NoResponse == [status |-> 0]
BurstReason == "Burst limit exceeded"
SustainedReason == "Rate limit exceeded"

(* Math.ceil(x / d) for an integer x and d > 0 *)
Ceil(x, d) == -((-x) \div d)

(* Math.min(...a) of a non-empty array *)
MinOf(a) == CHOOSE m \in {a[i] : i \in 1..Len(a)} : \A i \in 1..Len(a) : m <= a[i]

(* The predicate of every filter of the limiter: is timestamp ts still     *)
(* inside a window of w milliseconds at time t?                            *)
InWindow(ts, t, w) == t - ts < w

(* a.filter(timestamp => now - timestamp < w) *)
FilterWindow(a, t, w) == SelectSeq(a, LAMBDA ts : InWindow(ts, t, w))

(* cleanupOldEntries(key, now) on store st: the identity's window with     *)
(* both arrays filtered, and the key deleted when both are empty.          *)
CleanupOldEntries(st, key, t) ==
    IF st[key] = NoWindow
    THEN st
    ELSE LET filtered ==
                [requests |-> FilterWindow(st[key].requests, t, limiterConfig.windowMs),
                 burstRequests |-> FilterWindow(st[key].burstRequests, t,
                                                limiterConfig.burstWindowMs)]
         IN IF Len(filtered.requests) = 0 /\ Len(filtered.burstRequests) = 0
            THEN [st EXCEPT ![key] = NoWindow]
            ELSE [st EXCEPT ![key] = filtered]

(* The window object isAllowed holds in its local variable after the       *)
(* cleanup: the stored object (or the fresh empty one) with its arrays     *)
(* filtered, whether or not the cleanup deleted it from the store.         *)
LocalWindow(st, key, t) ==
    LET w == IF st[key] = NoWindow
             THEN [requests |-> <<>>, burstRequests |-> <<>>]
             ELSE st[key]
    IN [requests |-> FilterWindow(w.requests, t, limiterConfig.windowMs),
        burstRequests |-> FilterWindow(w.burstRequests, t, limiterConfig.burstWindowMs)]

(* A faulty isAllowed that stores a fresh window for every identity.       *)
StoreAfterIsAllowedForAll(st, key, t) ==
    [id \in Identities |-> [requests |-> <<>>, burstRequests |-> <<>>]]

(* The store after isAllowed: the window created if missing, then cleaned. *)
StoreAfterIsAllowed(st, key, t) ==
    CleanupOldEntries(
        IF st[key] = NoWindow
        THEN [st EXCEPT ![key] = [requests |-> <<>>, burstRequests |-> <<>>]]
        ELSE st,
        key, t)

(* Math.min() of no argument, and Math.ceil of a sum with it               *)
Infinity == "Infinity"

(* Math.ceil((Math.min(...a) + w - t) / 1000)                              *)
RetryAfter(a, w, t) ==
    IF Len(a) = 0 THEN Infinity ELSE Ceil(MinOf(a) + w - t, MsPerSecond)

(* The value isAllowed returns.                                            *)
IsAllowed(st, key, t) ==
    LET window == LocalWindow(st, key, t)
        burstRequestsInWindow ==
            Len(FilterWindow(window.burstRequests, t, limiterConfig.burstWindowMs))
        requestsInWindow ==
            Len(FilterWindow(window.requests, t, limiterConfig.windowMs))
    IN IF burstRequestsInWindow >= limiterConfig.burstMaxRequests
       THEN [allowed |-> FALSE,
             retryAfter |-> RetryAfter(window.burstRequests,
                                       limiterConfig.burstWindowMs, t),
             reason |-> BurstReason]
       ELSE IF requestsInWindow >= limiterConfig.maxRequests
       THEN [allowed |-> FALSE,
             retryAfter |-> RetryAfter(window.requests, limiterConfig.windowMs, t),
             reason |-> SustainedReason]
       ELSE [allowed |-> TRUE, retryAfter |-> 0, reason |-> ""]

(* recordRequest(key) at time t: push onto both arrays of the stored       *)
(* window, if the store holds one.                                         *)
RecordRequest(st, key, t) ==
    IF st[key] # NoWindow
    THEN [st EXCEPT ![key] = [requests |-> Append(@.requests, t),
                              burstRequests |-> Append(@.burstRequests, t)]]
    ELSE st

(* The rate limit headers the middleware sets at time t, if the store      *)
(* holds a window for the key.                                             *)
Headers(st, key, t) ==
    IF st[key] # NoWindow
    THEN [set |-> TRUE,
          remaining |-> limiterConfig.maxRequests
                        - Len(FilterWindow(st[key].requests, t, limiterConfig.windowMs)),
          burstRemaining |-> limiterConfig.burstMaxRequests
                        - Len(FilterWindow(st[key].burstRequests, t,
                                           limiterConfig.burstWindowMs))]
    ELSE [set |-> FALSE, remaining |-> 0, burstRemaining |-> 0]

RequestsMade ==
    LET RECURSIVE Sum(_)
        Sum(S) == IF S = {} THEN 0
                  ELSE LET x == CHOOSE y \in S : TRUE
                       IN Len(requestLog[x]) + Sum(S \ {x})
    IN Sum(Identities)

LimiterStart ==
    /\ limiterConfig \in LimiterConfigs
    /\ store = [id \in Identities |-> NoWindow]
    /\ response = NoResponse
    /\ requestLog = [id \in Identities |-> <<>>]

(* The middleware on a request of identity key: isAllowed reads the clock  *)
(* at `now`, recordRequest at t2 and the headers at t3.                    *)
Middleware(key, t2, t3) ==
    /\ RequestsMade < MaxRequests
    /\ LET result == IsAllowed(store, key, now)
           checked == StoreAfterIsAllowed(store, key, now)
       IN IF ~result.allowed
          THEN /\ store' = checked
               /\ response' = [key |-> key, status |-> 429, message |-> result.reason,
                               retryAfter |-> result.retryAfter,
                               headers |-> [set |-> FALSE, remaining |-> 0,
                                            burstRemaining |-> 0]]
               /\ requestLog' = [requestLog EXCEPT
                                   ![key] = Append(@, [at |-> now, status |-> 429])]
               /\ now' = now
          ELSE LET recorded == RecordRequest(checked, key, t2)
               IN /\ store' = recorded
                  /\ response' = [key |-> key, status |-> 200, message |-> "",
                                  retryAfter |-> 0,
                                  headers |-> Headers(recorded, key, t3)]
                  /\ requestLog' = [requestLog EXCEPT
                                      ![key] = Append(@, [at |-> now, status |-> 200])]
                  /\ now' = t3
    /\ UNCHANGED limiterConfig

(* The callback of the limiter's setInterval: cleanupOldEntries for every  *)
(* key of the store, all with the same `now`.                              *)
LimiterSweep ==
    /\ store' = [id \in Identities |-> CleanupOldEntries(store, id, now)[id]]
    /\ UNCHANGED <<limiterConfig, response, requestLog, now>>

-----------------------------------------------------------------------------
(* LRUCache *)

MaxCacheCount == 2        \* the sum of the cache's counters stops here

CacheKeys == {"a", "b", "c"}
CacheValues == {"x", "y"}

(* new LRUCache(capacity, ttlSeconds) *)
CacheCapacities == {1, 2}
TtlSecondsArgs == {1}

Null == "null"
NoNode == [absent |-> TRUE]
NoCacheOp == [op |-> "none", key |-> Null, value |-> Null, at |-> 0]

(* constructor(capacity, ttlSeconds): this.ttl = ttlSeconds * 1000 *)
MsPerSecondOfTtl == 1000
CacheConstructor(capacity, ttlSeconds) ==
    [capacity |-> capacity, ttl |-> ttlSeconds * MsPerSecondOfTtl]

(* A faulty node whose timestamp is kept in seconds.                       *)
NewNodeInSeconds(value, t) ==
    [value |-> value, timestamp |-> t \div 1000, prev |-> Null, next |-> Null]

(* new CacheNode(key, value) at time t *)
NewNode(value, t) == [value |-> value, timestamp |-> t, prev |-> Null, next |-> Null]

(* The map and the list as one value: [cache, head, tail].                 *)
ListState == [cache |-> cache, head |-> head, tail |-> tail]

CacheSize(c) == Cardinality({k \in CacheKeys : c[k] # NoNode})

(* Faulty expiry tests: twice the TTL, and no expiry at all.                *)
IsExpiredAfterTwice(node, t) == t - node.timestamp > 2 * cacheConfig.ttl
IsExpiredNever(node, t) == FALSE

(* isExpired(node) at time t *)
IsExpired(node, t) == t - node.timestamp > cacheConfig.ttl

(* removeNode(node), the node being the one stored under key k *)
RemoveNode(L, k) ==
    LET node == L.cache[k]
        c1 == IF node.prev # Null
              THEN [L.cache EXCEPT ![node.prev].next = node.next]
              ELSE L.cache
        h1 == IF node.prev # Null THEN L.head ELSE node.next
        c2 == IF node.next # Null
              THEN [c1 EXCEPT ![node.next].prev = node.prev]
              ELSE c1
        t1 == IF node.next # Null THEN L.tail ELSE node.prev
    IN [cache |-> c2, head |-> h1, tail |-> t1]

(* A faulty addToFront that leaves the old head without a predecessor.     *)
AddToFrontOneWay(L, k) ==
    LET c1 == [L.cache EXCEPT ![k].next = L.head, ![k].prev = Null]
    IN [cache |-> c1, head |-> k, tail |-> IF L.tail = Null THEN k ELSE L.tail]

(* addToFront(node) *)
AddToFront(L, k) ==
    LET c1 == [L.cache EXCEPT ![k].next = L.head, ![k].prev = Null]
        c2 == IF L.head # Null THEN [c1 EXCEPT ![L.head].prev = k] ELSE c1
    IN [cache |-> c2, head |-> k, tail |-> IF L.tail = Null THEN k ELSE L.tail]

(* A faulty moveToFront that leaves the list as it is.                     *)
MoveToFrontNot(L, k) == L

(* A faulty moveToFront that also resets the node's timestamp.             *)
MoveToFrontRefreshing(L, k) ==
    LET fresh == [L EXCEPT !.cache[k].timestamp = now]
    IN IF fresh.head = k THEN fresh ELSE AddToFront(RemoveNode(fresh, k), k)

(* moveToFront(node) *)
MoveToFront(L, k) ==
    IF L.head = k THEN L ELSE AddToFront(RemoveNode(L, k), k)

(* this.cache.delete(key) *)
MapDelete(L, k) == [L EXCEPT !.cache[k] = NoNode]

(* remove(key), for a key the map holds *)
RemoveKey(L, k) == MapDelete(RemoveNode(L, k), k)

(* A faulty removeLRU that unlinks the tail and leaves it in the map.       *)
RemoveLRUKeepsEntry(L) ==
    IF L.tail = Null
    THEN [list |-> L, evicted |-> 0]
    ELSE [list |-> [RemoveNode(L, L.tail) EXCEPT !.cache[L.tail].prev = Null],
          evicted |-> 1]

(* removeLRU(): the list and map after it, and whether it evicted.         *)
RemoveLRU(L) ==
    IF L.tail = Null
    THEN [list |-> L, evicted |-> 0]
    ELSE [list |-> MapDelete(RemoveNode(L, L.tail), L.tail), evicted |-> 1]

(* What the history records of a key: never set, cached, removed as        *)
(* expired (by get or by the sweep), or removed otherwise (by remove,      *)
(* clear or eviction) with the time of its latest set.                     *)
NeverSet == [fate |-> "unset"]
Live == [fate |-> "live"]
Expired == [fate |-> "expired"]
Dropped(node) == [fate |-> "dropped", at |-> node.timestamp]

(* The access order when key k is read or written, and when the keys of S  *)
(* leave the cache.                                                        *)
Touch(r, k) == <<k>> \o SelectSeq(r, LAMBDA x : x # k)
Forget(r, S) == SelectSeq(r, LAMBDA x : x \notin S)

(* The counters stay within the model's bound: the calls counted since the *)
(* latest resetStats().                                                    *)
CountersBounded(st) ==
    st.hits + st.misses + st.evictions + st.expirations <= MaxCacheCount

CacheStart ==
    /\ cacheConfig \in {CacheConstructor(c, t) : c \in CacheCapacities, t \in TtlSecondsArgs}
    /\ cache = [k \in CacheKeys |-> NoNode]
    /\ head = Null
    /\ tail = Null
    /\ cacheStats = [hits |-> 0, misses |-> 0, evictions |-> 0, expirations |-> 0]
    /\ cacheOp = NoCacheOp
    /\ history = [k \in CacheKeys |-> NeverSet]
    /\ recency = <<>>

SetList(L) ==
    /\ cache' = L.cache
    /\ head' = L.head
    /\ tail' = L.tail

(* get(key) *)
CacheGet(key) ==
    LET node == cache[key]
    IN /\ IF node = NoNode
          THEN /\ cacheStats' = [cacheStats EXCEPT !.misses = @ + 1]
               /\ cacheOp' = [op |-> "get", key |-> key, value |-> Null, at |-> now]
               /\ UNCHANGED <<cache, head, tail, history, recency>>
          ELSE IF IsExpired(node, now)
          THEN /\ cacheStats' = [cacheStats EXCEPT !.misses = @ + 1,
                                                   !.expirations = @ + 1]
               /\ SetList(RemoveKey(ListState, key))
               /\ cacheOp' = [op |-> "get", key |-> key, value |-> Null, at |-> now]
               /\ history' = [history EXCEPT ![key] = Expired]
               /\ recency' = Forget(recency, {key})
          ELSE /\ SetList(MoveToFront(ListState, key))
               /\ cacheStats' = [cacheStats EXCEPT !.hits = @ + 1]
               /\ cacheOp' = [op |-> "get", key |-> key, value |-> node.value, at |-> now]
               /\ recency' = Touch(recency, key)
               /\ UNCHANGED history
       /\ CountersBounded(cacheStats')
       /\ UNCHANGED cacheConfig

(* set(key, value) *)
CacheSet(key, value) ==
    /\ IF cache[key] # NoNode
       THEN /\ SetList(MoveToFront(
                   [ListState EXCEPT !.cache[key].value = value,
                                     !.cache[key].timestamp = now], key))
            /\ UNCHANGED cacheStats
            /\ history' = [history EXCEPT ![key] = Live]
            /\ recency' = Touch(recency, key)
       ELSE LET r == IF CacheSize(cache) >= cacheConfig.capacity
                     THEN RemoveLRU(ListState)
                     ELSE [list |-> ListState, evicted |-> 0]
                withNode == [r.list EXCEPT !.cache[key] = NewNode(value, now)]
                evicted == {k \in CacheKeys : cache[k] # NoNode /\ r.list.cache[k] = NoNode}
            IN /\ SetList(AddToFront(withNode, key))
               /\ cacheStats' = [cacheStats EXCEPT !.evictions = @ + r.evicted]
               /\ history' = [k \in CacheKeys |->
                                 IF k = key THEN Live
                                 ELSE IF k \in evicted THEN Dropped(cache[k])
                                 ELSE history[k]]
               /\ recency' = Touch(Forget(recency, evicted), key)
    /\ cacheOp' = [op |-> "set", key |-> key, value |-> value, at |-> now,
                   found |-> cache[key] # NoNode]
    /\ CountersBounded(cacheStats')
    /\ UNCHANGED cacheConfig

(* remove(key) *)
CacheRemove(key) ==
    /\ IF cache[key] = NoNode
       THEN /\ cacheOp' = [op |-> "remove", key |-> key, value |-> FALSE, at |-> now]
            /\ UNCHANGED <<cache, head, tail, history, recency>>
       ELSE /\ SetList(RemoveKey(ListState, key))
            /\ cacheOp' = [op |-> "remove", key |-> key, value |-> TRUE, at |-> now]
            /\ history' = [history EXCEPT ![key] = Dropped(cache[key])]
            /\ recency' = Forget(recency, {key})
    /\ UNCHANGED <<cacheConfig, cacheStats>>

(* A faulty clear() that resets the counters as well.                      *)
CacheClearWithStats ==
    /\ cache' = [k \in CacheKeys |-> NoNode]
    /\ head' = Null
    /\ tail' = Null
    /\ cacheOp' = [op |-> "clear", key |-> Null, value |-> Null, at |-> now]
    /\ history' = [k \in CacheKeys |->
                      IF cache[k] # NoNode THEN Dropped(cache[k]) ELSE history[k]]
    /\ recency' = <<>>
    /\ cacheStats' = [hits |-> 0, misses |-> 0, evictions |-> 0, expirations |-> 0]
    /\ UNCHANGED cacheConfig

(* clear() of the cache *)
CacheClear ==
    /\ cache' = [k \in CacheKeys |-> NoNode]
    /\ head' = Null
    /\ tail' = Null
    /\ cacheOp' = [op |-> "clear", key |-> Null, value |-> Null, at |-> now]
    /\ history' = [k \in CacheKeys |->
                      IF cache[k] # NoNode THEN Dropped(cache[k]) ELSE history[k]]
    /\ recency' = <<>>
    /\ UNCHANGED <<cacheConfig, cacheStats>>

(* resetStats() of the cache *)
CacheResetStats ==
    /\ cacheStats' = [hits |-> 0, misses |-> 0, evictions |-> 0, expirations |-> 0]
    /\ cacheOp' = [op |-> "resetStats", key |-> Null, value |-> Null, at |-> now]
    /\ UNCHANGED <<cacheConfig, cache, head, tail, history, recency>>

(* A faulty collection that takes the entries whose age is exactly TTL as  *)
(* well.                                                                   *)
KeysToRemoveFromTtl(c, t) ==
    {k \in CacheKeys : c[k] # NoNode /\ t - c[k].timestamp >= cacheConfig.ttl}

(* getStats() of the cache *)
CacheGetStats ==
    [hits |-> cacheStats.hits,
     misses |-> cacheStats.misses,
     size |-> CacheSize(cache),
     capacity |-> cacheConfig.capacity,
     evictions |-> cacheStats.evictions,
     expirations |-> cacheStats.expirations]

(* The keys cleanupExpiredEntries collects at time t.                      *)
KeysToRemove(c, t) == {k \in CacheKeys : c[k] # NoNode /\ IsExpired(c[k], t)}

(* The second loop of cleanupExpiredEntries over the collected keys, in    *)
(* the order `order` (the Map's iteration order).                          *)
RECURSIVE RemoveAll(_, _)
RemoveAll(L, order) ==
    IF order = <<>>
    THEN [list |-> L, removed |-> 0]
    ELSE IF L.cache[Head(order)] # NoNode
    THEN LET r == RemoveAll(RemoveKey(L, Head(order)), Tail(order))
         IN [list |-> r.list, removed |-> r.removed + 1]
    ELSE RemoveAll(L, Tail(order))

(* The orders in which a Map may hold the keys of S.                       *)
OrdersOf(S) ==
    {o \in [1..Cardinality(S) -> S] : \A i, j \in 1..Cardinality(S) : i # j => o[i] # o[j]}

(* The callback of the cache's setInterval: cleanupExpiredEntries().       *)
CacheSweep(order) ==
    /\ order \in OrdersOf(KeysToRemove(cache, now))
    /\ LET r == RemoveAll(ListState, order)
       IN /\ SetList(r.list)
          /\ cacheStats' = [cacheStats EXCEPT !.expirations = @ + r.removed]
    /\ cacheOp' = [op |-> "sweep", key |-> Null, value |-> Null, at |-> now]
    /\ history' = [k \in CacheKeys |->
                      IF cache[k] # NoNode /\ cache'[k] = NoNode THEN Expired ELSE history[k]]
    /\ recency' = Forget(recency, {k \in CacheKeys : cache[k] # NoNode /\ cache'[k] = NoNode})
    /\ CountersBounded(cacheStats')
    /\ UNCHANGED cacheConfig

-----------------------------------------------------------------------------
(* The users router: GET /:id over the cache and the queue *)

(* The ids requested: one of mockUsers and one that is not.                *)
UserIds == {1, 999}

(* mockUsers[userId] || null, a user being its name                        *)
MockUser(userId) == IF userId = 1 THEN "John Doe" ELSE Null

(* `user:${userId}`: the key of the id in the queue and in the cache       *)
QueueKey(userId) == IF userId = 1 THEN "K1" ELSE "K2"
CacheKey(userId) == IF userId = 1 THEN "a" ELSE "b"
UserIdOf(key) == IF key = "K1" THEN 1 ELSE 999

(* new LRUCache(100, 60), the TTL on the scale of the model's clock        *)
RouterCacheArgs == [capacity |-> 100, ttlSeconds |-> 1]

(* createQueue({concurrency: 5, maxRetries: 3, deduplication: true})       *)
RouterQueueArgs == [concurrency |-> 5, maxRetries |-> 3, deduplication |-> TRUE]

NoReply == [status |-> 0]

(* A faulty handler that answers without storing the user.                 *)
StoreInCacheNot(userId, user) == UNCHANGED cacheVars

(* userCache.set(cacheKey, user) in the continuation of the await: every   *)
(* caller that shares the promise runs it in the same turn, with the same  *)
(* key, value and clock, so the calls after the first change nothing.      *)
StoreInCache(userId, user) == CacheSet(CacheKey(userId), user)

(* The handler of GET /cache/stats: it answers userCache.getStats(), the   *)
(* value of CacheGetStats in the state of the call.                        *)
RouterCacheStats ==
    /\ reply' = [status |-> 200, from |-> "cache/stats"]
    /\ UNCHANGED <<queueVars, cacheVars>>

(* The handler of GET /queue/stats: it answers databaseQueue.getStats(),   *)
(* the value of QueueGetStats in the state of the call.                    *)
RouterQueueStats ==
    /\ reply' = [status |-> 200, from |-> "queue/stats"]
    /\ UNCHANGED <<queueVars, cacheVars>>

RouterStart ==
    /\ options = RouterQueueArgs
    /\ config = Constructor(options)
    /\ jobs = <<>>
    /\ queue = <<>>
    /\ processing = 0
    /\ deduplicationMap = [k \in Keys |-> NoJob]
    /\ queueStats = [completed |-> 0, failed |-> 0, totalProcessingTime |-> 0]
    /\ drain = "idle"
    /\ cacheConfig = CacheConstructor(RouterCacheArgs.capacity, RouterCacheArgs.ttlSeconds)
    /\ cache = [k \in CacheKeys |-> NoNode]
    /\ head = Null
    /\ tail = Null
    /\ cacheStats = [hits |-> 0, misses |-> 0, evictions |-> 0, expirations |-> 0]
    /\ cacheOp = NoCacheOp
    /\ history = [k \in CacheKeys |-> NeverSet]
    /\ recency = <<>>
    /\ reply = NoReply

(* The handler of GET /:id up to its return or its await: the cache        *)
(* lookup, then the answer from the cache or the call of enqueue.          *)
RouterGet(userId) ==
    /\ CacheGet(CacheKey(userId))
    /\ IF cacheOp'.value # Null
       THEN /\ reply' = [userId |-> userId, status |-> 200, body |-> cacheOp'.value,
                         from |-> "cache"]
            /\ UNCHANGED queueVars
       ELSE /\ Enqueue(QueueKey(userId))
            /\ UNCHANGED <<reply, drain>>

(* simulateDatabaseCall resolves after d milliseconds: the job resolves    *)
(* and the handlers that await its promise continue, with 404 for no user  *)
(* and with the store in the cache and the user otherwise.                 *)
RouterTaskDone(j, d) ==
    /\ j \in 1..Len(jobs)
    /\ jobs[j].state = "running"
    /\ LET userId == UserIdOf(jobs[j].id)
           user == MockUser(userId)
       IN /\ TaskSucceed(j, user, d)
          /\ IF user = Null
             THEN /\ reply' = [userId |-> userId, status |-> 404, body |-> Null,
                               from |-> "queue"]
                  /\ UNCHANGED cacheVars
             ELSE /\ StoreInCache(userId, user)
                  /\ reply' = [userId |-> userId, status |-> 200, body |-> user,
                               from |-> "queue"]
    /\ UNCHANGED drain

(* A faulty middleware that goes on to the next handler after a denial.    *)
CallsNextAlways(result) == TRUE

(* Does the middleware call next()? Not after the 429 of a denial, from    *)
(* which it returns.                                                       *)
CallsNext(result) == result.allowed

(* The limiters in front of the router: the one of the router, 10 per      *)
(* minute and 5 per 10 seconds, on the scale of the model, and the ones    *)
(* whose burst limit or sustained limit admits nothing.                    *)
GateConfigs ==
    {[windowMs |-> 1500, maxRequests |-> 2, burstWindowMs |-> 500, burstMaxRequests |-> 1],
     [windowMs |-> 1500, maxRequests |-> 2, burstWindowMs |-> 500, burstMaxRequests |-> 0],
     [windowMs |-> 1500, maxRequests |-> 0, burstWindowMs |-> 500, burstMaxRequests |-> 1]}

(* router.use(rateLimiter) and GET /:id: a request of identity key for     *)
(* user userId goes through the middleware, which calls the handler of     *)
(* the route synchronously through next(), or answers 429 and returns.     *)
(* The whole turn reads the clock in one millisecond.                      *)
GateRequest(key, userId) ==
    /\ Middleware(key, now, now)
    /\ IF CallsNext(IsAllowed(store, key, now))
       THEN RouterGet(userId)
       ELSE UNCHANGED <<queueVars, cacheVars, routerVars>>

-----------------------------------------------------------------------------
(* Specifications: one per component, the other components at rest.        *)

QueueIdle ==
    /\ options = [concurrency |-> 0, maxRetries |-> 0, deduplication |-> TRUE]
    /\ config = Constructor(options)
    /\ jobs = <<>>
    /\ queue = <<>>
    /\ processing = 0
    /\ deduplicationMap = [k \in Keys |-> NoJob]
    /\ queueStats = [completed |-> 0, failed |-> 0, totalProcessingTime |-> 0]
    /\ drain = "idle"

LimiterIdle ==
    /\ limiterConfig = CHOOSE c \in LimiterConfigs : TRUE
    /\ store = [id \in Identities |-> NoWindow]
    /\ response = NoResponse
    /\ requestLog = [id \in Identities |-> <<>>]

CacheIdle ==
    /\ cacheConfig = CacheConstructor(1, 1)
    /\ cache = [k \in CacheKeys |-> NoNode]
    /\ head = Null
    /\ tail = Null
    /\ cacheStats = [hits |-> 0, misses |-> 0, evictions |-> 0, expirations |-> 0]
    /\ cacheOp = NoCacheOp
    /\ history = [k \in CacheKeys |-> NeverSet]
    /\ recency = <<>>

RouterIdle == reply = NoReply

QueueInit == QueueStart /\ now = 0 /\ LimiterIdle /\ CacheIdle /\ RouterIdle

QueueNext ==
    \/ \E key \in Keys : Enqueue(key) /\ UNCHANGED <<now, drain, limiterVars, cacheVars, routerVars>>
    \/ \E j \in 1..MaxJobs, v \in Values, d \in ProcessingTimes :
          TaskSucceed(j, v, d) /\ UNCHANGED <<now, drain, limiterVars, cacheVars, routerVars>>
    \/ \E j \in 1..MaxJobs, f \in Failures : TaskFail(j, f) /\ UNCHANGED <<now, drain, limiterVars, cacheVars, routerVars>>
    \/ \E j \in 1..MaxJobs : RetryDelayElapsed(j) /\ UNCHANGED <<now, drain, limiterVars, cacheVars, routerVars>>
    \/ QueueClear /\ UNCHANGED <<now, drain, limiterVars, cacheVars, routerVars>>
    \/ QueueResetStats /\ UNCHANGED <<now, drain, limiterVars, cacheVars, routerVars>>

QueueSpec == QueueInit /\ [][QueueNext]_vars

(* The queue with callers of drain().  Deduplication is off: it decides    *)
(* which calls of enqueue create a job and nothing of what drain() reads.  *)
DrainInit == QueueInit /\ ~options.deduplication

DrainNext ==
    \/ QueueNext
    \/ DrainCall /\ UNCHANGED <<now, limiterVars, cacheVars, routerVars>>
    \/ DrainTimer /\ UNCHANGED <<now, limiterVars, cacheVars, routerVars>>

(* An invoked task settles and a timer that was set fires.                 *)
DrainFairness ==
    /\ \A j \in 1..MaxJobs :
          WF_vars((\/ \E v \in Values, d \in ProcessingTimes : TaskSucceed(j, v, d)
                   \/ \E f \in Failures : TaskFail(j, f))
                  /\ UNCHANGED <<now, drain, limiterVars, cacheVars, routerVars>>)
    /\ \A j \in 1..MaxJobs :
          WF_vars(RetryDelayElapsed(j) /\ UNCHANGED <<now, drain, limiterVars, cacheVars, routerVars>>)
    /\ WF_vars(DrainTimer /\ UNCHANGED <<now, limiterVars, cacheVars, routerVars>>)

DrainSpec == DrainInit /\ [][DrainNext]_vars /\ DrainFairness

(* The router: requests, the database call's completion, the cache's       *)
(* sweep and clear(), and the clock.  The limiter admits every request.    *)
RouterInit == RouterStart /\ now = 0 /\ LimiterIdle

RouterNext ==
    \/ Tick /\ UNCHANGED <<queueVars, limiterVars, cacheVars, routerVars>>
    \/ \E userId \in UserIds : RouterGet(userId) /\ UNCHANGED <<now, limiterVars>>
    \/ \E j \in 1..MaxJobs, d \in ProcessingTimes :
          RouterTaskDone(j, d) /\ UNCHANGED <<now, limiterVars>>
    \/ \E order \in UNION {OrdersOf(S) : S \in SUBSET CacheKeys} :
          CacheSweep(order) /\ UNCHANGED <<now, queueVars, limiterVars, routerVars>>
    \/ CacheClear /\ UNCHANGED <<now, queueVars, limiterVars, routerVars>>

RouterSpec == RouterInit /\ [][RouterNext]_vars

(* A queue of one slot without deduplication and with one job more, so     *)
(* that two jobs wait in the queue while a third executes or is retried.   *)
FifoJobs == MaxJobs + 1

FifoInit ==
    /\ QueueInit
    /\ options = [concurrency |-> 1, maxRetries |-> 1, deduplication |-> FALSE]

FifoNext ==
    \/ \E key \in Keys :
          EnqueueUpTo(key, FifoJobs) /\ UNCHANGED <<now, drain, limiterVars, cacheVars, routerVars>>
    \/ \E j \in 1..FifoJobs, v \in Values, d \in ProcessingTimes :
          TaskSucceed(j, v, d) /\ UNCHANGED <<now, drain, limiterVars, cacheVars, routerVars>>
    \/ \E j \in 1..FifoJobs, f \in Failures :
          TaskFail(j, f) /\ UNCHANGED <<now, drain, limiterVars, cacheVars, routerVars>>
    \/ \E j \in 1..FifoJobs :
          RetryDelayElapsed(j) /\ UNCHANGED <<now, drain, limiterVars, cacheVars, routerVars>>
    \/ QueueClear /\ UNCHANGED <<now, drain, limiterVars, cacheVars, routerVars>>

FifoSpec == FifoInit /\ [][FifoNext]_vars

(* The queue of one slot and one retry under the same fairness: an         *)
(* invoked task settles and a retry timer fires.                           *)
SettleInit == QueueInit /\ options.concurrency = 1 /\ options.maxRetries = 1

SettleFairness ==
    /\ \A j \in 1..MaxJobs :
          WF_vars((\/ \E v \in Values, d \in ProcessingTimes : TaskSucceed(j, v, d)
                   \/ \E f \in Failures : TaskFail(j, f))
                  /\ UNCHANGED <<now, drain, limiterVars, cacheVars, routerVars>>)
    /\ \A j \in 1..MaxJobs :
          WF_vars(RetryDelayElapsed(j) /\ UNCHANGED <<now, drain, limiterVars, cacheVars, routerVars>>)

SettleSpec == SettleInit /\ [][QueueNext]_vars /\ SettleFairness

GateInit ==
    /\ RouterStart
    /\ now = 0
    /\ limiterConfig \in GateConfigs
    /\ store = [id \in Identities |-> NoWindow]
    /\ response = NoResponse
    /\ requestLog = [id \in Identities |-> <<>>]

GateNext ==
    \/ Tick /\ UNCHANGED <<queueVars, limiterVars, cacheVars, routerVars>>
    \/ \E key \in Identities, userId \in UserIds : GateRequest(key, userId)
    \/ \E j \in 1..MaxJobs, d \in ProcessingTimes :
          RouterTaskDone(j, d) /\ UNCHANGED <<now, limiterVars>>
    \/ LimiterSweep /\ UNCHANGED <<queueVars, cacheVars, routerVars>>
    \/ \E order \in UNION {OrdersOf(S) : S \in SUBSET CacheKeys} :
          CacheSweep(order) /\ UNCHANGED <<now, queueVars, limiterVars, routerVars>>

GateSpec == GateInit /\ [][GateNext]_vars

LimiterInit == LimiterStart /\ now = 0 /\ QueueIdle /\ CacheIdle /\ RouterIdle

LimiterNext ==
    \/ Tick /\ UNCHANGED <<queueVars, limiterVars, cacheVars, routerVars>>
    \/ \E key \in Identities, t2 \in LaterReads(now) : \E t3 \in LaterReads(t2) :
          Middleware(key, t2, t3) /\ UNCHANGED <<queueVars, cacheVars, routerVars>>
    \/ LimiterSweep /\ UNCHANGED <<queueVars, cacheVars, routerVars>>

LimiterSpec == LimiterInit /\ [][LimiterNext]_vars

CacheInit == CacheStart /\ now = 0 /\ QueueIdle /\ LimiterIdle /\ RouterIdle

CacheNext ==
    \/ Tick /\ UNCHANGED <<queueVars, limiterVars, cacheVars, routerVars>>
    \/ \E key \in CacheKeys : CacheGet(key) /\ UNCHANGED <<now, queueVars, limiterVars, routerVars>>
    \/ \E key \in CacheKeys, value \in CacheValues :
          CacheSet(key, value) /\ UNCHANGED <<now, queueVars, limiterVars, routerVars>>
    \/ \E key \in CacheKeys : CacheRemove(key) /\ UNCHANGED <<now, queueVars, limiterVars, routerVars>>
    \/ CacheClear /\ UNCHANGED <<now, queueVars, limiterVars, routerVars>>
    \/ CacheResetStats /\ UNCHANGED <<now, queueVars, limiterVars, routerVars>>
    \/ \E order \in UNION {OrdersOf(S) : S \in SUBSET CacheKeys} :
          CacheSweep(order) /\ UNCHANGED <<now, queueVars, limiterVars, routerVars>>

CacheSpec == CacheInit /\ [][CacheNext]_vars

(* The cache with room for three entries, so that a node with both a      *)
(* predecessor and a successor is unlinked.                                *)
ListCapacity == 3

ListInit ==
    /\ cacheConfig = CacheConstructor(ListCapacity, 1)
    /\ cache = [k \in CacheKeys |-> NoNode]
    /\ head = Null
    /\ tail = Null
    /\ cacheStats = [hits |-> 0, misses |-> 0, evictions |-> 0, expirations |-> 0]
    /\ cacheOp = NoCacheOp
    /\ history = [k \in CacheKeys |-> NeverSet]
    /\ recency = <<>>
    /\ now = 0
    /\ QueueIdle /\ LimiterIdle /\ RouterIdle

ListSpec == ListInit /\ [][CacheNext]_vars

(* The counters of the two components and their readers.  The components  *)
(* share no state, so a behaviour exercises one of them: the queue of one  *)
(* slot and one retry, or the cache of one entry.                          *)
QueueCounted == options = [concurrency |-> 1, maxRetries |-> 1, deduplication |-> FALSE]

StatsInit ==
    \/ QueueInit /\ QueueCounted
    \/ CacheInit /\ cacheConfig = CacheConstructor(1, 1)

StatsNext ==
    \/ QueueCounted /\ QueueNext
    \/ QueueCounted /\ RouterQueueStats /\ UNCHANGED <<now, limiterVars>>
    \/ ~QueueCounted /\ CacheNext
    \/ ~QueueCounted /\ RouterCacheStats /\ UNCHANGED <<now, limiterVars>>

StatsSpec == StatsInit /\ [][StatsNext]_vars

-----------------------------------------------------------------------------
(* Properties of AsyncQueue *)

UnsettledJobsFor(k) == {j \in 1..Len(jobs) : jobs[j].id = k /\ Unsettled(j)}

(* A step is a call enqueue(k, _): it creates a job for k or it hands the  *)
(* promise of an existing job for k to one more caller.                    *)
EnqueueCallFor(k) ==
    \/ /\ Len(jobs') = Len(jobs) + 1
       /\ jobs'[Len(jobs')].id = k
    \/ /\ Len(jobs') = Len(jobs)
       /\ \E j \in 1..Len(jobs) : jobs[j].id = k /\ jobs'[j].callers = jobs[j].callers + 1

(* A step settles job j by its task's own outcome.                         *)
SettlesByOutcome(j) ==
    jobs[j].state = "running" /\ jobs'[j].state \in {"resolved", "rejected"}

(* C1: in every reachable state the processing counter is between 0 and    *)
(* the configured concurrency.                                             *)
C1_ProcessingWithinConcurrency ==
    processing >= 0 /\ processing <= config.concurrency

(* The cap binds: every slot is taken and a job waits in the queue.        *)
C1_Witness ==
    processing = config.concurrency /\ Len(queue) > 0

(* C2: with deduplication, a call enqueue(K, work) made while a job for K  *)
(* is unsettled creates no job and invokes nothing: the caller is attached *)
(* to that job, so all callers share its one outcome.                      *)
C2_DuplicateCallersShareOneJob ==
    [][config.deduplication =>
         \A k \in Keys : \A j \in UnsettledJobsFor(k) :
            EnqueueCallFor(k) =>
               /\ Len(jobs') = Len(jobs)
               /\ jobs'[j].callers = jobs[j].callers + 1
               /\ jobs'[j].invocations = jobs[j].invocations]_vars

(* C3: with deduplication, at most one unsettled job per key.              *)
C3_AtMostOneUnsettledJobPerKey ==
    config.deduplication => \A k \in Keys : Cardinality(UnsettledJobsFor(k)) <= 1

(* C7: with maxRetries as given to the constructor, a failure of a job     *)
(* that has failed fewer than maxRetries times before is not observed (the *)
(* promise stays pending, no counter moves), and a success after k         *)
(* failures, 1 <= k <= maxRetries, resolves the promise for all its        *)
(* callers with the task's value, adds exactly 1 to completed and leaves   *)
(* failed alone.                                                           *)
C7_RetryThenSuccess ==
    [][\A j \in 1..Len(jobs) :
         /\ (jobs[j].state = "running" /\ jobs[j].retries < options.maxRetries)
               => /\ jobs'[j].state # "rejected"
                  /\ (jobs'[j].state = "delay" =>
                         /\ jobs'[j].outcome = NoOutcome
                         /\ queueStats' = queueStats)
         /\ (/\ jobs[j].state = "running"
             /\ jobs[j].retries >= 1
             /\ jobs[j].retries <= options.maxRetries
             /\ jobs'[j].state = "resolved")
               => /\ jobs'[j].outcome \in Values
                  /\ jobs'[j].callers = jobs[j].callers
                  /\ queueStats'.completed = queueStats.completed + 1
                  /\ queueStats'.failed = queueStats.failed]_vars

(* A job shared by two callers resolved after its one allowed failure,     *)
(* counted once.                                                           *)
C7_Witness ==
    \E j \in 1..Len(jobs) :
       /\ options.maxRetries = 1
       /\ jobs[j].state = "resolved"
       /\ jobs[j].retries = 1
       /\ jobs[j].callers = 2
       /\ queueStats.completed = 1
       /\ queueStats.failed = 0

(* C8: with maxRetries as given to the constructor, a job is rejected with *)
(* its task's failure only by attempt number maxRetries + 1, and no job is *)
(* attempted more often; that step adds exactly 1 to failed, whatever the  *)
(* number of callers, and leaves completed alone.                          *)
C8_RetryExhaustion ==
    [][\A j \in 1..Len(jobs) :
         /\ jobs'[j].invocations <= options.maxRetries + 1
         /\ (jobs[j].state = "running" /\ jobs'[j].state = "rejected")
               => /\ jobs[j].invocations = options.maxRetries + 1
                  /\ jobs'[j].outcome.isError
                  /\ jobs'[j].callers = jobs[j].callers
                  /\ queueStats'.failed = queueStats.failed + 1
                  /\ queueStats'.completed = queueStats.completed]_vars

(* C9: with deduplication, the step that settles the job for K by its      *)
(* outcome removes K from the map; no call is ever handed the promise of   *)
(* a settled job, and a call for a key absent from the map creates a job.  *)
C9_SettledKeyStartsFreshJob ==
    [][config.deduplication =>
         /\ \A j \in 1..Len(jobs) :
               /\ SettlesByOutcome(j) => deduplicationMap'[jobs[j].id] = NoJob
               /\ jobs'[j].callers # jobs[j].callers => Unsettled(j)
         /\ \A k \in Keys :
               (EnqueueCallFor(k) /\ deduplicationMap[k] = NoJob)
                  => /\ Len(jobs') = Len(jobs) + 1
                     /\ deduplicationMap'[k] = Len(jobs')
                     /\ jobs'[Len(jobs')].state \in {"queued", "running"}
                     /\ jobs'[Len(jobs')].callers = 1]_vars

(* With one slot: the first job for K resolved, and a second job for K,    *)
(* registered in the map after that, is executing.                         *)
C9_Witness ==
    /\ config.deduplication
    /\ config.concurrency = 1
    /\ Len(jobs) = 2
    /\ jobs[1].id = jobs[2].id
    /\ jobs[1].state = "resolved"
    /\ jobs[2].state = "running"
    /\ deduplicationMap[jobs[2].id] = 2

(* C19: every step of clear() rejects each job that waits in the queue     *)
(* with the error 'Queue cleared', empties the queue, moves no counter,    *)
(* invokes nothing and leaves the jobs that are executing or waiting out   *)
(* a retry delay as they are; and a settled job never changes again, so    *)
(* the task of a cleared job is never invoked afterwards.                  *)
C19_ClearRejectsQueuedJobsOnly ==
    [][\A j \in 1..Len(jobs) :
          /\ QueueClear =>
                /\ Len(jobs') = Len(jobs)
                /\ queue' = <<>>
                /\ queueStats' = queueStats
                /\ processing' = processing
                /\ jobs'[j].invocations = jobs[j].invocations
                /\ jobs[j].state = "queued" =>
                      /\ jobs'[j].state = "rejected"
                      /\ jobs'[j].outcome = [isError |-> TRUE, text |-> "Queue cleared"]
                /\ jobs[j].state # "queued" => jobs'[j] = jobs[j]
          /\ jobs[j].state = "queued" <=> InQueue(j)
          /\ ~Unsettled(j) => jobs'[j] = jobs[j]]_vars

(* clear() rejected a job that was never invoked while another job was     *)
(* executing; that job then resolved by its own outcome.                   *)
C19_Witness ==
    /\ Len(jobs) = 2
    /\ jobs[1].state = "resolved"
    /\ jobs[1].outcome \in Values
    /\ jobs[2].state = "rejected"
    /\ jobs[2].outcome = [isError |-> TRUE, text |-> "Queue cleared"]
    /\ jobs[2].invocations = 0
    /\ queue = <<>>
    /\ processing = 0
    /\ queueStats.completed = 1
    /\ queueStats.failed = 0

(* C20: drain() resolves only in a step that finds the queue empty and the *)
(* processing counter at 0; and when every invoked task settles and every  *)
(* timer fires, a drain() that waits does resolve (the jobs enqueued in a  *)
(* behaviour are finitely many).                                           *)
C20_DrainResolvesWhenEmpty ==
    /\ [][(drain # "resolved" /\ drain' = "resolved")
             => /\ Len(queue) = 0 /\ processing = 0
                /\ Len(queue') = 0 /\ processing' = 0
                /\ \A j \in 1..Len(jobs) : ~Unsettled(j)]_vars
    /\ (drain = "waiting") ~> (drain = "resolved")

(* drain() resolved after two jobs had settled, one of them after a retry. *)
C20_Witness ==
    /\ drain = "resolved"
    /\ Len(jobs) = 2
    /\ \A j \in 1..2 : ~Unsettled(j)
    /\ \E j \in 1..2 : jobs[j].retries = 1
    /\ queueStats.completed + queueStats.failed = 2

(* C27: with deduplication, a step of clear() leaves in the map the key of *)
(* every job that is not waiting in the queue, so a call enqueue(k, _)     *)
(* made while a job for k is executing creates no job and is attached to   *)
(* the executing one.                                                      *)
C27_ClearKeepsExecutingKeys ==
    [][config.deduplication =>
         \A k \in Keys :
            /\ (QueueClear /\ deduplicationMap[k] # NoJob
                           /\ ~InQueue(deduplicationMap[k]))
                  => deduplicationMap'[k] = deduplicationMap[k]
            /\ \A j \in UnsettledJobsFor(k) :
                  (jobs[j].state = "running" /\ EnqueueCallFor(k))
                     => /\ Len(jobs') = Len(jobs)
                        /\ jobs'[j].callers = jobs[j].callers + 1]_vars

(* C28: a job whose task has started leaves no job that was enqueued       *)
(* before it waiting in the queue, and the queue holds the waiting jobs in *)
(* the order of their enqueue; the one exception is the retry: when the    *)
(* delay of a failed job has elapsed the job is put at the head of the     *)
(* queue and its task starts in that step, before the task of every job    *)
(* that waits, none of which starts in that step.                          *)
C28_FifoExceptRetry ==
    /\ [][\A a, b \in 1..Len(jobs') :
             (a < b /\ jobs'[b].invocations >= 1) => jobs'[a].state # "queued"]_vars
    /\ [][\A i, k \in 1..Len(queue') : i < k => queue'[i] < queue'[k]]_vars
    /\ [][\A j \in 1..Len(jobs) :
             (jobs[j].state = "delay" /\ jobs'[j] # jobs[j])
                => /\ jobs'[j].state = "running"
                   /\ jobs'[j].invocations = jobs[j].invocations + 1
                   /\ queue' = queue
                   /\ \A w \in 1..Len(jobs) : InQueue(w) => jobs'[w] = jobs[w]]_vars

(* Two jobs wait, in the order of their enqueue, behind the first job,     *)
(* whose task was started again after its retry delay.                     *)
C28_Witness ==
    /\ Len(jobs) = 3
    /\ jobs[1].state = "running"
    /\ jobs[1].invocations = 2
    /\ queue = <<2, 3>>
    /\ jobs[2].invocations = 0
    /\ jobs[3].invocations = 0

(* C29: with deduplication, while a job that has failed waits out its      *)
(* retry delay or executes again, its key is in the map with that job, and *)
(* a call enqueue for the key creates no job, invokes nothing and is       *)
(* attached to that job, whose outcome it receives.                        *)
C29_RetryKeepsKeyRegistered ==
    [][config.deduplication =>
         \A j \in 1..Len(jobs) :
            (jobs[j].retries >= 1 /\ jobs[j].state \in {"delay", "running"})
               => /\ deduplicationMap[jobs[j].id] = j
                  /\ EnqueueCallFor(jobs[j].id)
                        => /\ Len(jobs') = Len(jobs)
                           /\ jobs'[j].callers = jobs[j].callers + 1
                           /\ jobs'[j].invocations = jobs[j].invocations]_vars

(* C30: when every invoked task settles and every retry timer fires,       *)
(* every job's promise settles, whatever calls of enqueue and clear() are  *)
(* made meanwhile: resolved with a value of its task, or rejected with its *)
(* task's failure or with 'Queue cleared'; and a settled promise keeps its *)
(* outcome and its callers.                                                *)
C30_EveryPromiseSettlesOnce ==
    /\ \A j \in 1..MaxJobs :
          (Len(jobs) >= j /\ Unsettled(j)) ~> (Len(jobs) >= j /\ ~Unsettled(j))
    /\ [][\A j \in 1..Len(jobs) :
             /\ ~Unsettled(j) => jobs'[j] = jobs[j]
             /\ (Unsettled(j) /\ jobs'[j].state = "resolved") => jobs'[j].outcome \in Values
             /\ (Unsettled(j) /\ jobs'[j].state = "rejected")
                   => \/ jobs[j].state = "running" /\ jobs'[j].outcome.text = "boom"
                      \/ jobs[j].state = "queued" /\ jobs'[j].outcome = QueueCleared]_vars

(* One promise, shared by two callers, was rejected after its retry; the   *)
(* other was rejected by clear() without an invocation.                    *)
C30_Witness ==
    /\ Len(jobs) = 2
    /\ jobs[1].state = "rejected"
    /\ jobs[1].callers = 2
    /\ jobs[1].retries = 1
    /\ jobs[1].outcome.text = "boom"
    /\ jobs[2].state = "rejected"
    /\ jobs[2].outcome = QueueCleared
    /\ jobs[2].invocations = 0

(* C31: the step in which the last attempt of job j fails with f rejects   *)
(* the job's promise with f itself, whether f is an Error object or not.   *)
C31_TerminalFailureVerbatim ==
    [][\A j \in 1..Len(jobs) : \A f \in Failures :
          (TaskFail(j, f) /\ jobs'[j].state = "rejected") => jobs'[j].outcome = f]_vars

(* C32: in every reachable state getStats() of the queue returns pending  *)
(* = the length of the queue, processing = the processing counter,         *)
(* totalProcessed = completed + failed and an averageProcessingTime that   *)
(* is a number, not negative, equal to round(totalProcessingTime /         *)
(* completed) when a job has completed and to 0 when none has.             *)
C32_QueueStatsWellDefined ==
    LET s == QueueGetStats
    IN /\ s.pending = Len(queue)
       /\ s.processing = processing
       /\ s.totalProcessed = queueStats.completed + queueStats.failed
       /\ ~s.averageProcessingTime.isNaN
       /\ s.averageProcessingTime.value >= 0
       /\ queueStats.completed = 0 => s.averageProcessingTime.value = 0
       /\ queueStats.completed > 0 =>
             \A n \in 0..queueStats.totalProcessingTime :
                (2 * n - 1) * queueStats.completed <= 2 * queueStats.totalProcessingTime
                /\ 2 * queueStats.totalProcessingTime < (2 * n + 1) * queueStats.completed
                   => s.averageProcessingTime.value = n

(* C37: between two turns, a job waits in the queue only while exactly     *)
(* `concurrency` jobs hold a slot.                                         *)
C37_NoIdleSlotWhileQueued ==
    Len(queue) > 0 => processing = config.concurrency

(* A job waits while the only slot is held by a job that has failed once   *)
(* and is executing again.                                                 *)
C37_Witness ==
    /\ Len(queue) > 0
    /\ processing = config.concurrency
    /\ \E j \in 1..Len(jobs) :
          jobs[j].state = "running" /\ jobs[j].retries = 1 /\ jobs[j].invocations = 2

(* The jobs that hold a concurrency slot: their task is executing or they  *)
(* wait out their retry delay.                                             *)
SlotHolders == {j \in 1..Len(jobs) : jobs[j].state \in {"running", "delay"}}

(* C38: a job in its retry delay counts in `processing` and is not in the  *)
(* queue, so that the slots are never oversubscribed; clear() leaves it as *)
(* it is; and the end of its delay starts that job again and no other,     *)
(* the jobs queued meanwhile staying queued in their order.                *)
C38_RetryKeepsSlot ==
    [][/\ processing' = Cardinality(SlotHolders')
       /\ processing' <= config.concurrency
       /\ \A j \in 1..Len(jobs) :
             jobs[j].state = "delay"
                => /\ ~InQueue(j)
                   /\ QueueClear => jobs'[j] = jobs[j]
                   /\ jobs'[j].state \in {"delay", "running"}
                   /\ RetryDelayElapsed(j)
                         => /\ jobs'[j].state = "running"
                            /\ jobs'[j].invocations = jobs[j].invocations + 1
                            /\ queue' = queue
                            /\ processing' = processing
                            /\ \A i \in 1..Len(jobs) \ {j} : jobs'[i] = jobs[i]]_vars

(* The first job, back from its retry delay, is executing again while the  *)
(* two jobs enqueued after it still wait in their order.                   *)
C38_Witness ==
    /\ config.concurrency = 1
    /\ processing = 1
    /\ Len(jobs) = 3
    /\ jobs[1].state = "running"
    /\ jobs[1].retries = 1
    /\ jobs[1].invocations = 2
    /\ queue = <<2, 3>>

(* C39: in a queue constructed with maxRetries = 0 the first failure of a  *)
(* job's task rejects the job, which is never put into a retry delay.      *)
C39_ZeroRetriesHonoured ==
    [][options.maxRetries = 0
          => \A j \in 1..Len(jobs) : \A f \in Failures :
                TaskFail(j, f)
                   => /\ jobs[j].invocations = 1
                      /\ jobs'[j].state = "rejected"
                      /\ jobs'[j].retries = 0]_vars

-----------------------------------------------------------------------------
(* Properties of RateLimiter *)

(* The requests of identity id admitted before its i-th request and less   *)
(* than w milliseconds before it.                                          *)
AdmittedBefore(id, i, w) ==
    Cardinality({j \in 1..(i - 1) :
                    /\ requestLog[id][j].status = 200
                    /\ requestLog[id][i].at - requestLog[id][j].at < w})

(* The requests of identity id admitted up to its i-th one and inside the  *)
(* window of w milliseconds that ends at it.                               *)
AdmittedWithin(id, i, w) ==
    Cardinality({j \in 1..i :
                    /\ requestLog[id][j].status = 200
                    /\ requestLog[id][i].at - requestLog[id][j].at < w})

(* C4: the latest request, from an identity whose admitted requests still  *)
(* inside the sustained window are all inside the burst window, is         *)
(* admitted when they are fewer than burstMaxRequests and is denied with   *)
(* the burst reason and retryAfter > 0 when they are burstMaxRequests.     *)
C4_BurstAdmission ==
    response # NoResponse =>
       LET id == response.key
           i == Len(requestLog[id])
           inBurst == AdmittedBefore(id, i, limiterConfig.burstWindowMs)
           inWindow == AdmittedBefore(id, i, limiterConfig.windowMs)
       IN inBurst = inWindow =>
             /\ inBurst < limiterConfig.burstMaxRequests => response.status = 200
             /\ inBurst = limiterConfig.burstMaxRequests =>
                   /\ response.status = 429
                   /\ response.message = BurstReason
                   /\ response.retryAfter > 0

(* C5: the latest request, from an identity below the burst limit, is      *)
(* admitted when fewer than maxRequests admitted requests are inside the   *)
(* sustained window and denied with the sustained reason when maxRequests  *)
(* are.                                                                    *)
C5_SustainedAdmission ==
    response # NoResponse =>
       LET id == response.key
           i == Len(requestLog[id])
           inBurst == AdmittedBefore(id, i, limiterConfig.burstWindowMs)
           inWindow == AdmittedBefore(id, i, limiterConfig.windowMs)
       IN inBurst < limiterConfig.burstMaxRequests =>
             /\ inWindow < limiterConfig.maxRequests => response.status = 200
             /\ inWindow = limiterConfig.maxRequests =>
                   /\ response.status = 429
                   /\ response.message = SustainedReason

(* C6: for every identity and every instant t, at most burstMaxRequests    *)
(* requests are admitted in (t - burstWindowMs, t] and at most maxRequests *)
(* in (t - windowMs, t].  The count is largest at the instant of an        *)
(* admission, so those instants are the ones checked.                      *)
C6_SlidingWindowBound ==
    \A id \in Identities : \A i \in 1..Len(requestLog[id]) :
       requestLog[id][i].status = 200 =>
          /\ AdmittedWithin(id, i, limiterConfig.burstWindowMs)
                <= limiterConfig.burstMaxRequests
          /\ AdmittedWithin(id, i, limiterConfig.windowMs)
                <= limiterConfig.maxRequests

(* The time of the oldest request of identity id admitted before its i-th  *)
(* request and less than w milliseconds before it.                         *)
OldestAdmittedBefore(id, i, w) ==
    LET S == {requestLog[id][j].at : j \in {j \in 1..(i - 1) :
                    /\ requestLog[id][j].status = 200
                    /\ requestLog[id][i].at - requestLog[id][j].at < w}}
    IN CHOOSE m \in S : \A x \in S : m <= x

C17_AdmittedRequestIsCounted ==
    (response # NoResponse /\ response.status = 200) =>
       LET id == response.key
           i == Len(requestLog[id])
       IN /\ store[id] # NoWindow
          /\ Len(store[id].requests) >= 1
          /\ Len(store[id].burstRequests) >= 1
          /\ response.headers.set
          /\ response.headers.remaining
                = limiterConfig.maxRequests - AdmittedWithin(id, i, limiterConfig.windowMs)
          /\ response.headers.burstRemaining
                = limiterConfig.burstMaxRequests
                  - AdmittedWithin(id, i, limiterConfig.burstWindowMs)

(* C18: a request of identity A leaves the window of every other identity  *)
(* B as it is, and with it every answer isAllowed would give B.            *)
C18_IdentitiesAreIsolated ==
    [][\A a \in Identities :
          Len(requestLog'[a]) = Len(requestLog[a]) + 1
             => \A b \in Identities \ {a} :
                   /\ store'[b] = store[b]
                   /\ requestLog'[b] = requestLog[b]
                   /\ \A t \in {now', now' + TickMs} :
                         IsAllowed(store', b, t) = IsAllowed(store, b, t)]_vars

(* Identity A made a request after identity B had made two.                *)
C18_Witness ==
    /\ response # NoResponse
    /\ response.key = "A"
    /\ Len(requestLog["A"]) = 1
    /\ Len(requestLog["B"]) = 2
    /\ requestLog["B"][2].at <= requestLog["A"][1].at

(* C34: a request that finds both the burst count and the sustained count  *)
(* of its identity at or above their limits is denied with the burst       *)
(* reason and the retryAfter of the burst window; and a denial carries the *)
(* sustained reason only when the burst count is below burstMaxRequests.   *)
C34_BurstReasonFirst ==
    response # NoResponse =>
       LET id == response.key
           i == Len(requestLog[id])
           at == requestLog[id][i].at
           inBurst == AdmittedBefore(id, i, limiterConfig.burstWindowMs)
           inWindow == AdmittedBefore(id, i, limiterConfig.windowMs)
       IN /\ (inBurst >= limiterConfig.burstMaxRequests
               /\ inWindow >= limiterConfig.maxRequests)
                => /\ response.status = 429
                   /\ response.message = BurstReason
                   /\ response.retryAfter
                         = Ceil(OldestAdmittedBefore(id, i, limiterConfig.burstWindowMs)
                                + limiterConfig.burstWindowMs - at, MsPerSecond)
          /\ (response.status = 429 /\ response.message = SustainedReason)
                => inBurst < limiterConfig.burstMaxRequests

(* Timestamps of array a that a window of w milliseconds no longer holds   *)
(* at time t.                                                              *)
StaleIn(a, t, w) == {i \in 1..Len(a) : ~InWindow(a[i], t, w)}

(* The stored window of identity id is neither empty in both arrays nor    *)
(* holds a timestamp outside its window at time t.                         *)
EntryIsLive(st, id, t) ==
    st[id] # NoWindow =>
       /\ ~(Len(st[id].requests) = 0 /\ Len(st[id].burstRequests) = 0)
       /\ StaleIn(st[id].requests, t, limiterConfig.windowMs) = {}
       /\ StaleIn(st[id].burstRequests, t, limiterConfig.burstWindowMs) = {}

(* C35: the store holds an entry for an identity right after an admitted   *)
(* request of that identity; and after a check for an identity (at the     *)
(* time of the check) or a background sweep (for every identity) no stored *)
(* entry has both arrays empty or keeps a timestamp older than its window. *)
C35_StoreEntryLifecycle ==
    [][/\ \A id \in Identities :
             Len(requestLog'[id]) = Len(requestLog[id]) + 1
                => /\ response'.status = 200 => store'[id] # NoWindow
                   /\ EntryIsLive(store', id, now)
       /\ LimiterSweep => \A id \in Identities : EntryIsLive(store', id, now)]_vars

(* The timestamps the store holds for identity id in its two windows.      *)
RecordedIn(st, id) ==
    IF st[id] = NoWindow
    THEN [requests |-> <<>>, burstRequests |-> <<>>]
    ELSE st[id]

(* C36: a request answered 429 adds no timestamp to either window of its   *)
(* identity and leaves the cache with its counters, the queue and the      *)
(* router's last reply as they were.                                       *)
C36_DeniedRequestChangesNothing ==
    [][\A id \in Identities :
          (/\ Len(requestLog'[id]) = Len(requestLog[id]) + 1
           /\ response'.status = 429)
             => /\ Len(RecordedIn(store', id).requests)
                      <= Len(RecordedIn(store, id).requests)
                /\ Len(RecordedIn(store', id).burstRequests)
                      <= Len(RecordedIn(store, id).burstRequests)
                /\ UNCHANGED <<queueVars, cacheVars, routerVars>>]_vars

(* The second request of an identity was denied for the sustained limit,   *)
(* as its first had been.                                                  *)
C36_Witness ==
    /\ response # NoResponse
    /\ response.status = 429
    /\ response.message = SustainedReason
    /\ Len(requestLog[response.key]) = 2
    /\ requestLog[response.key][1].status = 429
    /\ requestLog[response.key][2].at > requestLog[response.key][1].at

-----------------------------------------------------------------------------
(* Properties of LRUCache *)

(* C10: a get(k) that directly follows set(k, v), less than TTL later,     *)
(* returns v, adds exactly 1 to hits and leaves misses alone.              *)
C10_SetThenGetHits ==
    [][(/\ cacheOp.op = "set"
        /\ cacheOp'.op = "get"
        /\ cacheOp'.key = cacheOp.key
        /\ cacheOp'.at - cacheOp.at < cacheConfig.ttl)
         => /\ cacheOp'.value = cacheOp.value
            /\ cacheStats'.hits = cacheStats.hits + 1
            /\ cacheStats'.misses = cacheStats.misses]_vars

(* The first get of a behaviour hit the only entry, some time after its    *)
(* set and before its TTL.                                                 *)
C10_Witness ==
    /\ cacheOp.op = "get"
    /\ cacheOp.value \in CacheValues
    /\ cacheStats = [hits |-> 1, misses |-> 0, evictions |-> 0, expirations |-> 0]
    /\ CacheSize(cache) = 1
    /\ cache[cacheOp.key].timestamp < cacheOp.at
    /\ cacheOp.at - cache[cacheOp.key].timestamp < cacheConfig.ttl

(* A step is a call get(k): every get counts a hit or a miss.              *)
GetCall(k) ==
    cacheOp'.op = "get" /\ cacheOp'.key = k /\ cacheStats' # cacheStats

(* The latest set(k, _) was more than TTL ago.                             *)
SetLongAgo(k) ==
    \/ history[k].fate = "live" /\ now - cache[k].timestamp > cacheConfig.ttl
    \/ history[k].fate = "expired"
    \/ history[k].fate = "dropped" /\ now - history[k].at > cacheConfig.ttl

(* Every step adds to expirations the number of entries it removes as      *)
(* expired, each entry once; resetStats() sets the counter to 0.           *)
CountsEachExpiryOnce ==
    \/ cacheStats'.expirations = cacheStats.expirations
          + Cardinality({k \in CacheKeys : history[k] = Live /\ history'[k] = Expired})
    \/ cacheOp'.op = "resetStats" /\ cacheStats'.expirations = 0

(* What C11 says of a step.                                                *)
ExpiredGetMisses(k) ==
    /\ cacheOp'.value = Null
    /\ cacheStats'.misses = cacheStats.misses + 1
    /\ cacheStats'.hits = cacheStats.hits
    /\ cache'[k] = NoNode
    /\ history'[k] = Expired

(* C11 as stated: a get(k) more than TTL after the latest set(k, _)        *)
(* returns null, adds 1 to misses and none to hits, leaves k absent, and   *)
(* the entry has been counted in expirations exactly once, by this get or  *)
(* by a sweep before it.                                                   *)
C11_ExpiredGetAsStated ==
    [][/\ \A k \in CacheKeys : (GetCall(k) /\ SetLongAgo(k)) => ExpiredGetMisses(k)
       /\ CountsEachExpiryOnce]_vars

(* C11: the same for an entry that no remove(k), clear() or eviction has   *)
(* taken out of the cache since its set: such a get finds the entry and    *)
(* removes it, counting it, or finds it removed and counted by a sweep.    *)
C11_ExpiredGetMissesOnce ==
    [][/\ \A k \in CacheKeys :
             (GetCall(k) /\ SetLongAgo(k) /\ history[k].fate # "dropped")
                => ExpiredGetMisses(k)
       /\ CountsEachExpiryOnce]_vars

(* A get found its key expired, or removed by the sweep: one miss and one  *)
(* expiration are counted.                                                 *)
C11_Witness ==
    /\ cacheOp.op = "get"
    /\ cacheOp.value = Null
    /\ history[cacheOp.key] = Expired
    /\ cacheStats = [hits |-> 0, misses |-> 1, evictions |-> 0, expirations |-> 1]

(* C12 as stated: get(k) returns a value only when the entry's age,        *)
(* now - timestamp, is less than TTL.                                      *)
C12_VisibleOnlyBelowTtl ==
    [][\A k \in CacheKeys :
          (GetCall(k) /\ cacheOp'.value # Null)
             => /\ cache[k] # NoNode
                /\ now - cache[k].timestamp < cacheConfig.ttl]_vars

(* C12: get(k) returns a value only when the entry's age is at most TTL,   *)
(* and at the age of exactly TTL it does return the value.                 *)
C12_VisibleUpToTtl ==
    [][\A k \in CacheKeys :
          /\ (GetCall(k) /\ cacheOp'.value # Null)
                => /\ cache[k] # NoNode
                   /\ now - cache[k].timestamp <= cacheConfig.ttl
          /\ (GetCall(k) /\ cache[k] # NoNode
              /\ now - cache[k].timestamp = cacheConfig.ttl)
                => /\ cacheOp'.value = cache[k].value
                   /\ cacheStats'.hits = cacheStats.hits + 1]_vars

(* A get hit an entry whose age is exactly TTL.                            *)
C12_Witness ==
    /\ cacheOp.op = "get"
    /\ cacheOp.value \in CacheValues
    /\ cacheStats.hits = 1
    /\ cache[cacheOp.key] # NoNode
    /\ now - cache[cacheOp.key].timestamp = cacheConfig.ttl
    /\ cacheOp.at = now

(* A step is a call set(k, _) for a key the cache does not hold.           *)
SetOfNewKey(k) == cache[k] = NoNode /\ cache'[k] # NoNode

(* The entry of k2 is the same before and after the step.                  *)
EntryStays(k2) ==
    /\ cache'[k2] # NoNode
    /\ cache'[k2].value = cache[k2].value
    /\ cache'[k2].timestamp = cache[k2].timestamp

(* What C13 says of the step that sets the new key k into a full cache:    *)
(* exactly the entry whose latest successful get or set is the oldest is   *)
(* evicted, evictions grows by exactly 1 and every other entry stays.      *)
EvictsOldest(k) ==
    LET lru == recency[Len(recency)]
    IN /\ cache[lru] # NoNode
       /\ cache'[lru] = NoNode
       /\ \A k2 \in CacheKeys \ {k, lru} : cache[k2] # NoNode => EntryStays(k2)
       /\ cacheStats'.evictions = cacheStats.evictions + 1
       /\ CacheSize(cache') = cacheConfig.capacity

(* The call before this step was a get that hit: its key was accessed      *)
(* after every other key's latest access.                                  *)
JustHit == cacheOp.op = "get" /\ cacheOp.value # Null

(* C13 as stated: a set of a new key into a cache holding `capacity`       *)
(* entries evicts the least recently accessed entry only, and never the    *)
(* key that a get hit after every other key's latest access.               *)
C13_EvictionAsStated ==
    [][\A k \in CacheKeys :
          (SetOfNewKey(k) /\ CacheSize(cache) = cacheConfig.capacity)
             => /\ EvictsOldest(k)
                /\ JustHit => cache'[cacheOp.key] # NoNode]_vars

(* C13: the same, the key that was just hit being safe when the capacity   *)
(* is 2 or more; with two or more entries the most recently accessed one   *)
(* is never evicted.  With capacity 1 the only entry is evicted.           *)
C13_EvictsLeastRecentlyUsed ==
    [][\A k \in CacheKeys :
          (SetOfNewKey(k) /\ CacheSize(cache) = cacheConfig.capacity)
             => /\ EvictsOldest(k)
                /\ Len(recency) >= 2 => cache'[recency[1]] # NoNode
                /\ (JustHit /\ cacheConfig.capacity >= 2) => cache'[cacheOp.key] # NoNode
                /\ cacheConfig.capacity = 1 => cache'[recency[1]] = NoNode]_vars

(* With capacity 2: the entry that was set first stayed because a get hit  *)
(* it, and the entry set after it was evicted.                             *)
C13_Witness ==
    \E h, d \in CacheKeys :
       /\ cacheConfig.capacity = 2
       /\ cacheOp.op = "set"
       /\ cacheOp.key \notin {h, d}
       /\ CacheSize(cache) = 2
       /\ cache[h] # NoNode
       /\ history[d].fate = "dropped"
       /\ cache[h].timestamp < history[d].at
       /\ cacheStats = [hits |-> 1, misses |-> 0, evictions |-> 1, expirations |-> 0]

(* C14: the number of cached entries never exceeds the capacity.           *)
C14_SizeWithinCapacity ==
    CacheSize(cache) <= cacheConfig.capacity

(* A set of a new key found the cache full and left it full.               *)
C14_Witness ==
    /\ cacheOp.op = "set"
    /\ cacheStats.evictions = 2
    /\ CacheSize(cache) = cacheConfig.capacity
    /\ cacheConfig.capacity = 2

(* C21: a step of clear() leaves no entry in the map, sets head and tail   *)
(* to null and leaves the four counters as they are; a key that is absent  *)
(* comes back only by a set of that key, and a get of an absent key        *)
(* returns null and counts a miss.                                         *)
C21_ClearEmptiesAndKeepsCounters ==
    [][/\ cacheOp'.op = "clear" =>
             /\ CacheSize(cache') = 0
             /\ \A k \in CacheKeys : cache'[k] = NoNode
             /\ head' = Null
             /\ tail' = Null
             /\ cacheStats' = cacheStats
       /\ \A k \in CacheKeys :
             /\ SetOfNewKey(k) => cacheOp'.op = "set" /\ cacheOp'.key = k
             /\ (GetCall(k) /\ cache[k] = NoNode)
                   => /\ cacheOp'.value = Null
                      /\ cacheStats'.misses = cacheStats.misses + 1
                      /\ cacheStats'.hits = cacheStats.hits
                      /\ cache'[k] = NoNode]_vars

(* clear() emptied a cache of two entries after a hit and an eviction had  *)
(* been counted, and the counters still show them.                         *)
C21_Witness ==
    /\ cacheOp.op = "clear"
    /\ CacheSize(cache) = 0
    /\ head = Null
    /\ tail = Null
    /\ Cardinality({k \in CacheKeys : history[k].fate = "dropped"}) = 3
    /\ cacheStats = [hits |-> 1, misses |-> 0, evictions |-> 1, expirations |-> 0]

(* The keys met from key k through next links, n nodes at most.            *)
RECURSIVE Walk(_, _)
Walk(k, n) ==
    IF k = Null \/ n = 0
    THEN <<>>
    ELSE IF cache[k] = NoNode
    THEN <<k>>
    ELSE <<k>> \o Walk(cache[k].next, n - 1)

CachedKeys == {k \in CacheKeys : cache[k] # NoNode}

(* C23: in every reachable state the keys of the map are the keys met from *)
(* head through next links, each once; prev is the inverse of next; head   *)
(* has no predecessor and tail no successor; head and tail are null        *)
(* exactly when the cache is empty.                                        *)
C23_ListMatchesMap ==
    LET w == Walk(head, Cardinality(CacheKeys) + 1)
    IN /\ {w[i] : i \in 1..Len(w)} = CachedKeys
       /\ Len(w) = Cardinality(CachedKeys)
       /\ \A k \in CachedKeys :
             /\ cache[k].next # Null =>
                   cache[k].next \in CachedKeys /\ cache[cache[k].next].prev = k
             /\ cache[k].prev # Null =>
                   cache[k].prev \in CachedKeys /\ cache[cache[k].prev].next = k
             /\ cache[k].next = Null <=> tail = k
             /\ cache[k].prev = Null <=> head = k
       /\ head = Null <=> CachedKeys = {}
       /\ tail = Null <=> CachedKeys = {}

(* Of three entries, a get has moved the middle one to the head.           *)
C23_Witness ==
    /\ CacheSize(cache) = 3
    /\ cacheOp.op = "get"
    /\ cacheOp.value # Null
    /\ head = cacheOp.key
    /\ cache[tail].timestamp < cache[head].timestamp
    /\ cache[head].timestamp < cache[cache[head].next].timestamp
    /\ cache[cache[head].next].next = tail

(* A step is a get(k) that hits.                                           *)
GetHit(k) == GetCall(k) /\ cacheOp'.value # Null

(* C24 as stated: a get(k) that hits resets the entry's timestamp to now   *)
(* and moves the entry to the head.                                        *)
C24_HitRefreshesEntry ==
    [][\A k \in CacheKeys :
          GetHit(k) => /\ head' = k
                       /\ cache'[k].timestamp = now]_vars

(* C24: a get(k) that hits moves the entry to the head and leaves its      *)
(* timestamp and value as they are; only set(k, _) changes the timestamp   *)
(* of a cached entry; so a get(k) more than TTL after the latest set of    *)
(* the entry misses, whatever the hits in between.                         *)
C24_HitKeepsTimestamp ==
    [][\A k \in CacheKeys :
          /\ GetHit(k) => /\ head' = k
                          /\ cache'[k].timestamp = cache[k].timestamp
                          /\ cache'[k].value = cache[k].value
          /\ (/\ cache[k] # NoNode
              /\ cache'[k] # NoNode
              /\ cache'[k].timestamp # cache[k].timestamp)
                => cacheOp'.op = "set" /\ cacheOp'.key = k
          /\ (GetCall(k) /\ cache[k] # NoNode
              /\ now - cache[k].timestamp > cacheConfig.ttl)
                => cacheOp'.value = Null /\ cache'[k] = NoNode]_vars

(* A get hit the older of two entries, TTL after its set: the entry is at  *)
(* the head with the timestamp of its set.                                 *)
C24_Witness ==
    /\ cacheOp.op = "get"
    /\ cacheOp.value # Null
    /\ cacheOp.at = now
    /\ CacheSize(cache) = 2
    /\ head = cacheOp.key
    /\ now - cache[head].timestamp = cacheConfig.ttl
    /\ cache[tail].timestamp > cache[head].timestamp

(* A step is a call set(k, _): no other step leaves a set as the latest    *)
(* call and the clock as it is.                                            *)
SetCall(k) ==
    cacheOp'.op = "set" /\ cacheOp'.key = k /\ cacheOp'.at = now /\ now' = now

(* C25: a set(k, v) that finds k in the cache stores v, sets the entry's   *)
(* timestamp to now and makes it the most recently used; it leaves every   *)
(* other entry with its value and timestamp, the size and the four         *)
(* counters as they are, also when the cache holds `capacity` entries.     *)
C25_SetOfCachedKeyUpdatesInPlace ==
    [][\A k \in CacheKeys :
          (SetCall(k) /\ cache[k] # NoNode)
             => /\ cache'[k] # NoNode
                /\ cache'[k].value = cacheOp'.value
                /\ cache'[k].timestamp = now
                /\ head' = k
                /\ recency'[1] = k
                /\ \A k2 \in CacheKeys \ {k} :
                      /\ cache[k2] = NoNode => cache'[k2] = NoNode
                      /\ cache[k2] # NoNode => EntryStays(k2)
                /\ CacheSize(cache') = CacheSize(cache)
                /\ cacheStats' = cacheStats]_vars

(* With the cache at its capacity of 2, a set found its key at the tail    *)
(* and gave it a later timestamp; nothing was evicted.                     *)
C25_Witness ==
    /\ cacheOp.op = "set"
    /\ cacheOp.found
    /\ cacheConfig.capacity = 2
    /\ CacheSize(cache) = 2
    /\ head = cacheOp.key
    /\ cache[head].value = cacheOp.value
    /\ cache[head].timestamp = now
    /\ cache[tail].timestamp < now
    /\ history[head] = Live
    /\ \A k \in CacheKeys : history[k].fate \in {"unset", "live"}
    /\ cacheStats = [hits |-> 0, misses |-> 0, evictions |-> 0, expirations |-> 0]

(* The keys of map c in list order, from head h through next links.        *)
RECURSIVE WalkIn(_, _, _)
WalkIn(c, k, n) ==
    IF k = Null \/ n = 0
    THEN <<>>
    ELSE IF c[k] = NoNode
    THEN <<k>>
    ELSE <<k>> \o WalkIn(c, c[k].next, n - 1)

ListOrder(c, h) == WalkIn(c, h, Cardinality(CacheKeys) + 1)

(* A step is a run of the background sweep.                                *)
SweepCall == cacheOp'.op = "sweep" /\ cacheOp'.at = now /\ now' = now

(* C26: a sweep removes exactly the entries whose age, now - timestamp,    *)
(* exceeds TTL, adds the number of entries removed to expirations, leaves  *)
(* hits, misses and evictions alone, and leaves the other entries with     *)
(* their values, their timestamps and their order in the list.             *)
C26_SweepRemovesExactlyExpired ==
    [][SweepCall =>
          LET old == {k \in CacheKeys :
                         cache[k] # NoNode /\ now - cache[k].timestamp > cacheConfig.ttl}
          IN /\ \A k \in old : cache'[k] = NoNode
             /\ \A k \in CacheKeys \ old :
                   /\ cache[k] = NoNode => cache'[k] = NoNode
                   /\ cache[k] # NoNode => EntryStays(k)
             /\ cacheStats'.expirations = cacheStats.expirations + Cardinality(old)
             /\ cacheStats'.hits = cacheStats.hits
             /\ cacheStats'.misses = cacheStats.misses
             /\ cacheStats'.evictions = cacheStats.evictions
             /\ ListOrder(cache', head')
                   = SelectSeq(ListOrder(cache, head), LAMBDA k : k \notin old)]_vars

(* Of three entries a sweep removed the one older than TTL and left the    *)
(* two that are exactly TTL old and younger.                               *)
C26_Witness ==
    /\ cacheOp.op = "sweep"
    /\ cacheOp.at = now
    /\ CacheSize(cache) = 2
    /\ Cardinality({k \in CacheKeys : history[k] = Expired}) = 1
    /\ now - cache[tail].timestamp = cacheConfig.ttl
    /\ now - cache[head].timestamp < cacheConfig.ttl
    /\ cacheStats = [hits |-> 0, misses |-> 0, evictions |-> 0, expirations |-> 1]

(* C33: a step that is not resetStats() of the cache lowers none of hits,  *)
(* misses, evictions and expirations; a step that is not resetStats() of   *)
(* the queue lowers none of completed, failed and totalProcessingTime; and *)
(* a step in which getStats() of either component is read and answered     *)
(* changes nothing of the queue, of the cache or of the limiter.           *)
C33_CountersMonotoneAndStatsPure ==
    [][/\ ~CacheResetStats =>
             /\ cacheStats'.hits >= cacheStats.hits
             /\ cacheStats'.misses >= cacheStats.misses
             /\ cacheStats'.evictions >= cacheStats.evictions
             /\ cacheStats'.expirations >= cacheStats.expirations
       /\ ~QueueResetStats =>
             /\ queueStats'.completed >= queueStats.completed
             /\ queueStats'.failed >= queueStats.failed
             /\ queueStats'.totalProcessingTime >= queueStats.totalProcessingTime
       /\ (reply' # reply /\ reply'.from \in {"cache/stats", "queue/stats"})
             => UNCHANGED <<queueVars, cacheVars, limiterVars, now>>]_vars

(* getStats() of the cache was read in a behaviour in which a hit and an   *)
(* eviction are counted.                                                   *)
C33_Witness ==
    /\ reply # NoReply
    /\ reply.from = "cache/stats"
    /\ cacheOp.op = "set"
    /\ CacheGetStats.size = 1
    /\ cacheStats = [hits |-> 1, misses |-> 0, evictions |-> 1, expirations |-> 0]

-----------------------------------------------------------------------------
(* Properties of the users router *)

(* C22: for the id of an existing user, every call of enqueue for its key  *)
(* is made by a request whose cache lookup missed; the step in which the   *)
(* queued database call succeeds stores the user under the key and adds    *)
(* exactly 1 to completed; and a request that finds the entry in the       *)
(* cache, less than TTL old, is a hit answered 200 with the user from the  *)
(* cache, with no job created and no task invoked.                         *)
C22_CacheThenQueueThenCache ==
    [][\A userId \in {u \in UserIds : MockUser(u) # Null} :
          LET key == CacheKey(userId)
          IN /\ EnqueueCallFor(QueueKey(userId))
                   => /\ cacheOp'.op = "get"
                      /\ cacheOp'.key = key
                      /\ cacheOp'.value = Null
                      /\ cacheStats'.misses = cacheStats.misses + 1
             /\ \A j \in 1..Len(jobs) :
                   (jobs[j].id = QueueKey(userId) /\ SettlesByOutcome(j))
                      => /\ jobs'[j].state = "resolved"
                         /\ cache'[key] # NoNode
                         /\ cache'[key].value = MockUser(userId)
                         /\ cache'[key].timestamp = now
                         /\ queueStats'.completed = queueStats.completed + 1
                         /\ reply' = [userId |-> userId, status |-> 200,
                                      body |-> MockUser(userId), from |-> "queue"]
             /\ (/\ GetCall(key)
                 /\ cache[key] # NoNode
                 /\ now - cache[key].timestamp < cacheConfig.ttl)
                   => /\ cacheStats'.hits = cacheStats.hits + 1
                      /\ reply' = [userId |-> userId, status |-> 200,
                                   body |-> MockUser(userId), from |-> "cache"]
                      /\ jobs' = jobs
                      /\ queueStats' = queueStats]_vars

(* After one miss and one database call, a later request for the same id   *)
(* was answered from the cache.                                            *)
C22_Witness ==
    /\ reply # NoReply
    /\ reply.from = "cache"
    /\ reply.body = MockUser(reply.userId)
    /\ cacheStats.hits = 1
    /\ cacheStats.misses = 1
    /\ Len(jobs) = 1
    /\ jobs[1].invocations = 1
    /\ queueStats.completed = 1
    /\ now > cache[CacheKey(reply.userId)].timestamp

=============================================================================
